---- MODULE Spec2Model ----
(***************************************************************************)
(* A model of migrate_cpm.py: remove_versions_from_csproj walks a          *)
(* directory tree, reads every file whose name ends with ".csproj",        *)
(* strips Version="..." attributes from the <PackageReference ...> tags    *)
(* with two nested regular-expression substitutions and rewrites the file  *)
(* when the text changed.  Texts are sequences of one-character strings.   *)
(***************************************************************************)
EXTENDS Integers, Sequences, FiniteSets, TLC

CR == "\r"
LF == "\n"
QUOTE == "\""
GT == ">"

\* The regex class \s, over the characters the model's texts are made of.
IsSpace(c) == c \in {" ", "\t", LF, CR, "\f"}

\* The literal '<PackageReference' of the outer pattern.
TagLit == <<"<", "P", "a", "c", "k", "a", "g", "e", "R", "e", "f", "e", "r", "e", "n", "c", "e">>

\* The literal 'Version="' of the inner pattern.
VerLit == <<"V", "e", "r", "s", "i", "o", "n", "=", QUOTE>>

\* The suffix tested by filename.endswith('.csproj').
Suffix == <<".", "c", "s", "p", "r", "o", "j">>

\* str.endswith: the last Len(suf) characters of s are suf.
EndsWith(s, suf) ==
    /\ Len(s) >= Len(suf)
    /\ SubSeq(s, Len(s) - Len(suf) + 1, Len(s)) = suf

\* The literal lit occurs in s at position i.
HasLit(s, lit, i) ==
    /\ i >= 1
    /\ i + Len(lit) - 1 <= Len(s)
    /\ SubSeq(s, i, i + Len(lit) - 1) = lit

\* The first position >= i of s that holds c, or 0.
RECURSIVE FindChar(_, _, _)
FindChar(s, c, i) ==
    IF i > Len(s) THEN 0
    ELSE IF s[i] = c THEN i
    ELSE FindChar(s, c, i + 1)

\* Greedy \s*: the first position >= i of s that holds no whitespace.
RECURSIVE SkipSpace(_, _)
SkipSpace(s, i) ==
    IF i <= Len(s) /\ IsSpace(s[i]) THEN SkipSpace(s, i + 1) ELSE i

\* A match of \s+Version="[^"]*" starting at position i of tag: the position
\* of its last character (the closing quote), or 0 when there is no match.
VersionMatchEnd(tag, i) ==
    IF i <= Len(tag) /\ IsSpace(tag[i])
    THEN LET q == SkipSpace(tag, i)
         IN  IF HasLit(tag, VerLit, q)
             THEN FindChar(tag, QUOTE, q + Len(VerLit))
             ELSE 0
    ELSE 0

\* re.sub(r'\s+Version="[^"]*"', '', tag_content), scanning from position i:
\* every leftmost non-overlapping match is deleted.
RECURSIVE StripFrom(_, _)
StripFrom(tag, i) ==
    IF i > Len(tag) THEN <<>>
    ELSE LET e == VersionMatchEnd(tag, i)
         IN  IF e # 0 THEN StripFrom(tag, e + 1)
             ELSE <<tag[i]>> \o StripFrom(tag, i + 1)

\* replace_tag(match): the matched tag without its Version attributes.
replace_tag(tag_content) == StripFrom(tag_content, 1)

\* A match of <PackageReference\s+[^>]*> starting at position i of s: the
\* position of its last character (the first '>' after the whitespace), or 0.
TagMatchEnd(s, i) ==
    IF /\ HasLit(s, TagLit, i)
       /\ i + Len(TagLit) <= Len(s)
       /\ IsSpace(s[i + Len(TagLit)])
    THEN FindChar(s, GT, i + Len(TagLit) + 1)
    ELSE 0

\* re.sub(r'<PackageReference\s+[^>]*>', replace_tag, content), scanning from
\* position i: every leftmost non-overlapping tag is replaced by replace_tag
\* of it, everything else is copied.
RECURSIVE SubFrom(_, _)
SubFrom(s, i) ==
    IF i > Len(s) THEN <<>>
    ELSE LET e == TagMatchEnd(s, i)
         IN  IF e # 0 THEN replace_tag(SubSeq(s, i, e)) \o SubFrom(s, e + 1)
             ELSE <<s[i]>> \o SubFrom(s, i + 1)

Transform(content) == SubFrom(content, 1)

\* f.read() of a file opened with open(filepath, 'r'): universal newlines,
\* '\r\n' and a lone '\r' both read as '\n'.
RECURSIVE ReadText(_)
ReadText(bytes) ==
    IF bytes = <<>> THEN <<>>
    ELSE IF bytes[1] = CR
         THEN IF Len(bytes) >= 2 /\ bytes[2] = LF
              THEN <<LF>> \o ReadText(SubSeq(bytes, 3, Len(bytes)))
              ELSE <<LF>> \o ReadText(Tail(bytes))
         ELSE <<bytes[1]>> \o ReadText(Tail(bytes))

\* f.write(new_content) of a file opened with open(filepath, 'w'): every '\n'
\* is written as the platform's line separator sep.
RECURSIVE WriteText(_, _)
WriteText(text, sep) ==
    IF text = <<>> THEN <<>>
    ELSE IF text[1] = LF THEN sep \o WriteText(Tail(text), sep)
         ELSE <<text[1]>> \o WriteText(Tail(text), sep)


(***************************************************************************)
(* Bounds and the inputs drawn from them.                                  *)
(***************************************************************************)
\* Files in the tree of the one-run specification.
NumFiles == 2
\* Fragments a text of the two-run specification is concatenated from.
MaxPieces == 5
\* Successive runs of the two-run specification.
MaxRuns == 2

Space == <<" ">>
\* ' Version="1"'
VersionAttr == Space \o VerLit \o <<"1", QUOTE>>
\* Two versioned tags on two lines:
\* '<PackageReference Version="1">' LF '<PackageReference Version="1">'
VersionedText == TagLit \o VersionAttr \o <<GT, LF>> \o TagLit \o VersionAttr \o <<GT>>
\* '<PackageReference a="1">'
PlainText == TagLit \o <<" ", "a", "=", QUOTE, "1", QUOTE, GT>>


Pieces ==
    { TagLit,
      VersionAttr,
      Space \o VerLit,
      <<" ", "a", "=", QUOTE>>,
      <<GT>>,
      <<CR>>,
      <<LF>>,
      <<" ", "V", "e", "r">>,
      <<"s", "i", "o", "n", "=", QUOTE, "2", QUOTE>> }

RECURSIVE Flatten(_)
Flatten(ps) == IF ps = <<>> THEN <<>> ELSE Head(ps) \o Flatten(Tail(ps))

PieceSeqs == UNION { [1..n -> Pieces] : n \in 0..MaxPieces }

Dirs == {"root", "sub"}
\* File name endings: '.csproj', '.CSPROJ', '.csproj.bak', '.props'.
UpperSuffix == <<".", "C", "S", "P", "R", "O", "J">>
Exts ==
    { Suffix,
      UpperSuffix,
      Suffix \o <<".", "b", "a", "k">>,
      <<".", "p", "r", "o", "p", "s">> }
\* The file with index f is named by its own letter and an ending.
Letters == <<"a", "b", "c", "d">>
\* ok: readable and writable; noread: open(filepath, 'r') or the decoding
\* fails; nowrite: open(filepath, 'w') fails; diskfull: the write fails
\* after the file was truncated.
Modes == {"ok", "noread", "nowrite", "diskfull"}
Seps == { <<LF>>, <<CR, LF>> }
\* The files a tree is made of.  Left out are combinations that behave like
\* one that is kept: a file that is never opened for writing has mode ok or
\* noread, and a file that is never opened at all is unreadable under one
\* name only.
Kinds ==
    { k \in [dir : Dirs, ext : Exts, mode : Modes, text : {VersionedText, PlainText}] :
        \/ k.ext = Suffix /\ k.text = VersionedText
        \/ k.ext = Suffix /\ k.text = PlainText /\ k.mode \in {"ok", "noread"}
        \/ k.ext # Suffix /\ k.text = VersionedText /\ k.mode = "ok"
        \/ k.ext = UpperSuffix /\ k.text = VersionedText /\ k.mode = "noread" }

(***************************************************************************)
(* State.                                                                  *)
(***************************************************************************)
VARIABLES
    tree,        \* per file: the directory holding it, its name, its mode
    listable,    \* per directory: os.scandir of it succeeds
    linesep,     \* os.linesep of the platform
    disk,        \* per file: the bytes on disk
    initial,     \* disk when the first run started
    before,      \* disk when the current run started
    run,         \* number of the current run
    pc,          \* position in remove_versions_from_csproj
    pending,     \* directories os.walk has still to list
    dirpath,     \* directory whose filenames are iterated
    seen,        \* files of dirpath the inner loop has taken
    order,       \* candidate files in the order the run took them
    cur,         \* file being processed, 0 when none
    content,     \* text read from cur
    new_content, \* text after the substitution
    stdout,      \* notices printed in the current run, by file
    opened,      \* per file: opens for reading in the current run
    written,     \* per file: opens for writing that succeeded in the current run
    failed       \* file whose I/O error ended the run, 0 when none

vars == << tree, listable, linesep, disk, initial, before, run, pc, pending,
           dirpath, seen, order, cur, content, new_content, stdout, opened,
           written, failed >>

File == DOMAIN tree
FilesIn(d) == { f \in File : tree[f].dir = d }
SubDirs(d) == IF d = "root" THEN <<"sub">> ELSE <<>>
\* A slip: '.csproj' in filename, instead of filename.endswith('.csproj').
IsCandidateContains(f) ==
    \E i \in 1..Len(tree[f].name) : HasLit(tree[f].name, Suffix, i)

IsCandidate(f) == EndsWith(tree[f].name, Suffix)

Start(t, l, sep, d) ==
    /\ tree = t
    /\ listable = l
    /\ linesep = sep
    /\ disk = d
    /\ initial = d
    /\ before = d
    /\ run = 1
    /\ pc = "walk"
    /\ pending = <<"root">>
    /\ dirpath = "none"
    /\ seen = {}
    /\ order = <<>>
    /\ cur = 0
    /\ content = <<>>
    /\ new_content = <<>>
    /\ stdout = <<>>
    /\ opened = [f \in DOMAIN t |-> 0]
    /\ written = [f \in DOMAIN t |-> 0]
    /\ failed = 0

\* A tree of NumFiles files, each in the root or in its subdirectory, of any
\* kind; either directory may be unlistable (the root: missing as well).
Init ==
    \E ks \in [1..NumFiles -> Kinds], l \in [Dirs -> BOOLEAN], sep \in Seps :
        Start([f \in 1..NumFiles |->
                  [dir |-> ks[f].dir, name |-> <<Letters[f]>> \o ks[f].ext,
                   mode |-> ks[f].mode]],
              l, sep, [f \in 1..NumFiles |-> ks[f].text])

\* One readable and writable .csproj file in the root, holding any text made
\* of at most MaxPieces fragments.
InitText ==
    \E ps \in PieceSeqs, sep \in Seps :
        Start(<<[dir |-> "root", name |-> <<"a">> \o Suffix, mode |-> "ok"]>>,
              [d \in Dirs |-> TRUE], sep, <<Flatten(ps)>>)

(***************************************************************************)
(* remove_versions_from_csproj, step by step.                              *)
(***************************************************************************)
\* os.walk(root_dir) lists the next directory.  onerror is None, so a
\* directory that cannot be listed is skipped without any error.
WalkDir ==
    /\ pc = "walk"
    /\ pending # <<>>
    /\ LET d == Head(pending)
       IN  IF listable[d]
           THEN /\ dirpath' = d
                /\ seen' = {}
                /\ pending' = Tail(pending) \o SubDirs(d)
                /\ pc' = "files"
           ELSE /\ pending' = Tail(pending)
                /\ UNCHANGED << dirpath, seen, pc >>
    /\ UNCHANGED << tree, listable, linesep, disk, initial, before, run, order,
                    cur, content, new_content, stdout, opened, written, failed >>

\* os.walk is exhausted: the function returns.
WalkEnd ==
    /\ pc = "walk"
    /\ pending = <<>>
    /\ pc' = "done"
    /\ dirpath' = "none"
    /\ UNCHANGED << tree, listable, linesep, disk, initial, before, run, pending,
                    seen, order, cur, content, new_content, stdout, opened,
                    written, failed >>

\* A slip: a break that leaves the loop over filenames at the first
\* candidate file.
NextFileBreak ==
    /\ pc = "files"
    /\ \E f \in FilesIn(dirpath) \ seen :
        IF IsCandidate(f)
        THEN /\ seen' = FilesIn(dirpath)
             /\ cur' = f
             /\ order' = Append(order, f)
             /\ pc' = "open"
        ELSE /\ seen' = seen \cup {f}
             /\ UNCHANGED << cur, order, pc >>
    /\ UNCHANGED << tree, listable, linesep, disk, initial, before, run, pending,
                    dirpath, content, new_content, stdout, opened, written,
                    failed >>

\* for filename in filenames: if filename.endswith('.csproj').  The order
\* of filenames is the file system's.
NextFile ==
    /\ pc = "files"
    /\ \E f \in FilesIn(dirpath) \ seen :
        /\ seen' = seen \cup {f}
        /\ IF IsCandidate(f)
           THEN /\ cur' = f
                /\ order' = Append(order, f)
                /\ pc' = "open"
           ELSE UNCHANGED << cur, order, pc >>
    /\ UNCHANGED << tree, listable, linesep, disk, initial, before, run, pending,
                    dirpath, content, new_content, stdout, opened, written,
                    failed >>

\* The filenames of dirpath are exhausted.
EndFiles ==
    /\ pc = "files"
    /\ FilesIn(dirpath) \subseteq seen
    /\ pc' = "walk"
    /\ UNCHANGED << tree, listable, linesep, disk, initial, before, run, pending,
                    dirpath, seen, order, cur, content, new_content, stdout,
                    opened, written, failed >>

\* A slip: the read is wrapped in try/except and the loop goes on with the
\* next file.
OpenReadIsolated ==
    /\ pc = "open"
    /\ IF tree[cur].mode = "noread"
       THEN /\ pc' = "files"
            /\ failed' = cur
            /\ cur' = 0
            /\ UNCHANGED << content, opened >>
       ELSE /\ opened' = [opened EXCEPT ![cur] = @ + 1]
            /\ content' = ReadText(disk[cur])
            /\ pc' = "sub"
            /\ UNCHANGED << failed, cur >>
    /\ UNCHANGED << tree, listable, linesep, disk, initial, before, run, pending,
                    dirpath, seen, order, new_content, stdout, written >>

\* with open(filepath, 'r') as f: content = f.read()
OpenRead ==
    /\ pc = "open"
    /\ IF tree[cur].mode = "noread"
       THEN /\ pc' = "raised"
            /\ failed' = cur
            /\ UNCHANGED << content, opened >>
       ELSE /\ opened' = [opened EXCEPT ![cur] = @ + 1]
            /\ content' = ReadText(disk[cur])
            /\ pc' = "sub"
            /\ UNCHANGED failed
    /\ UNCHANGED << tree, listable, linesep, disk, initial, before, run, pending,
                    dirpath, seen, order, cur, new_content, stdout, written >>

\* A slip: the file is rewritten without comparing the two texts.
SubstituteAlways ==
    /\ pc = "sub"
    /\ new_content' = Transform(content)
    /\ pc' = "print"
    /\ UNCHANGED << tree, listable, linesep, disk, initial, before, run, pending,
                    dirpath, seen, order, cur, content, stdout, opened, written,
                    failed >>

\* new_content = re.sub(...); if new_content != content
Substitute ==
    /\ pc = "sub"
    /\ new_content' = Transform(content)
    /\ IF new_content' # content
       THEN /\ pc' = "print"
            /\ UNCHANGED cur
       ELSE /\ pc' = "files"
            /\ cur' = 0
    /\ UNCHANGED << tree, listable, linesep, disk, initial, before, run, pending,
                    dirpath, seen, order, content, stdout, opened, written,
                    failed >>

\* print(f"Updating {filepath}")
Notice ==
    /\ pc = "print"
    /\ stdout' = Append(stdout, cur)
    /\ pc' = "write"
    /\ UNCHANGED << tree, listable, linesep, disk, initial, before, run, pending,
                    dirpath, seen, order, cur, content, new_content, opened,
                    written, failed >>

\* with open(filepath, 'w') as f: f.write(new_content)
WriteBack ==
    /\ pc = "write"
    /\ LET out == WriteText(new_content, linesep)
       IN  CASE tree[cur].mode = "nowrite" ->
                    /\ pc' = "raised"
                    /\ failed' = cur
                    /\ UNCHANGED << disk, written, cur >>
             [] tree[cur].mode = "diskfull" ->
                    /\ \E k \in 0..(Len(out) - 1) :
                         disk' = [disk EXCEPT ![cur] = SubSeq(out, 1, k)]
                    /\ written' = [written EXCEPT ![cur] = @ + 1]
                    /\ pc' = "raised"
                    /\ failed' = cur
                    /\ UNCHANGED cur
             [] OTHER ->
                    /\ disk' = [disk EXCEPT ![cur] = out]
                    /\ written' = [written EXCEPT ![cur] = @ + 1]
                    /\ pc' = "files"
                    /\ cur' = 0
                    /\ UNCHANGED failed
    /\ UNCHANGED << tree, listable, linesep, initial, before, run, pending,
                    dirpath, seen, order, content, new_content, stdout, opened >>

\* The function is called again on the tree the previous run left.
Rerun ==
    /\ pc = "done"
    /\ run < MaxRuns
    /\ run' = run + 1
    /\ before' = disk
    /\ pc' = "walk"
    /\ pending' = <<"root">>
    /\ seen' = {}
    /\ order' = <<>>
    /\ content' = <<>>
    /\ new_content' = <<>>
    /\ stdout' = <<>>
    /\ opened' = [f \in File |-> 0]
    /\ written' = [f \in File |-> 0]
    /\ UNCHANGED << tree, listable, linesep, disk, initial, dirpath, cur, failed >>

Next ==
    \/ WalkDir
    \/ WalkEnd
    \/ NextFile
    \/ EndFiles
    \/ OpenRead
    \/ Substitute
    \/ Notice
    \/ WriteBack

NextTwice ==
    \/ Next
    \/ Rerun

\* One run over a tree of several files, with I/O failures.
Spec == Init /\ [][Next]_vars

\* Two successive runs over one file holding an arbitrary text.
SpecTwice == InitText /\ [][NextTwice]_vars

(***************************************************************************)
(* Properties of one run over a tree (Spec).                               *)
(***************************************************************************)
Range(q) == { q[i] : i \in DOMAIN q }
Count(q, x) == Cardinality({ i \in DOMAIN q : q[i] = x })

\* The bytes VersionedText is expected to become under line separator sep:
\* '<PackageReference>' sep '<PackageReference>'.
StrippedText(sep) == TagLit \o <<GT>> \o sep \o TagLit \o <<GT>>

HasSuffix(f) == EndsWith(tree[f].name, Suffix)
\* os.walk gets to the directory of f.
Reached(f) == listable["root"] /\ listable[tree[f].dir]
\* f was taken by the loop and its processing has ended without an error.
Processed(f) == f \in Range(order) /\ f # cur

\* C3: a file whose name does not end with '.csproj' is never opened, never
\* written and never announced, and its content stays what it was.
Selectivity ==
    \A f \in File :
        ~HasSuffix(f) =>
            /\ opened[f] = 0
            /\ written[f] = 0
            /\ f \notin Range(stdout)
            /\ f # cur
            /\ disk[f] = initial[f]

\* A finished run that rewrote a .csproj file and walked past a versioned
\* file of another name.
SelectivityWitness ==
    /\ pc = "done"
    /\ \E f, g \in File :
        /\ ~HasSuffix(f) /\ Reached(f) /\ initial[f] = VersionedText
        /\ HasSuffix(g) /\ written[g] = 1 /\ tree[g].dir = tree[f].dir

\* C4: a candidate file is written at most once; once it is processed it was
\* written once if its transformed text differs from the text read (the text
\* with two versioned tags) and never if the two are equal; a write happens
\* only for a text that differs.
WriteCount ==
    /\ \A f \in File :
        /\ written[f] <= 1
        /\ Processed(f) =>
             written[f] = IF initial[f] = VersionedText THEN 1 ELSE 0
    /\ pc = "write" => new_content # content /\ written[cur] = 0

\* A finished run that wrote the file with two versioned tags once and the
\* file with an unversioned tag not at all.
WriteCountWitness ==
    /\ pc = "done"
    /\ \E f, g \in File :
        /\ Processed(f) /\ initial[f] = VersionedText /\ written[f] = 1
        /\ Processed(g) /\ initial[g] = PlainText /\ written[g] = 0

\* C5: at the end of a run, normal or by an I/O error, a file has one notice
\* if its content on disk changed during the run and none if it did not.
NoticeAccuracy ==
    pc \in {"done", "raised"} =>
        \A f \in File :
            Count(stdout, f) = IF disk[f] # before[f] THEN 1 ELSE 0

\* C6: a run never completes normally when the root or a subdirectory
\* cannot be listed.
PathErrorsFatal ==
    pc = "done" => \A d \in Dirs : listable[d]

\* C7: an I/O error on file f ends the run at f: nothing is enabled any more,
\* f is the last file taken, the files not yet taken were not opened, written
\* or announced and hold their initial content, and the files taken before f
\* are fully processed and keep their new content.
ErrorStopsRun ==
    /\ failed # 0 => pc = "raised"
    /\ pc = "raised" =>
        /\ failed # 0
        /\ cur = failed
        /\ order # <<>>
        /\ order[Len(order)] = failed
        /\ ~ENABLED Next
        /\ \A g \in File \ Range(order) :
            /\ opened[g] = 0
            /\ written[g] = 0
            /\ g \notin Range(stdout)
            /\ disk[g] = initial[g]
        /\ \A g \in Range(order) \ {failed} :
            /\ opened[g] = 1
            /\ disk[g] = IF initial[g] = VersionedText
                         THEN StrippedText(linesep) ELSE initial[g]

\* A run ended by an error while a versioned .csproj file of the same
\* directory had not been taken yet.
ErrorStopsRunWitness ==
    /\ pc = "raised"
    /\ \E g \in File \ Range(order) :
        /\ HasSuffix(g)
        /\ tree[g].dir = tree[failed].dir
        /\ tree[g].mode = "ok"
        /\ initial[g] = VersionedText

\* The final contents file f can have by itself: what its own name, place,
\* mode and initial content give, whatever happens to the other files.
OwnOutcomes(f) ==
    IF HasSuffix(f) /\ Reached(f) /\ initial[f] = VersionedText
    THEN CASE tree[f].mode = "ok" -> {StrippedText(linesep)}
           [] tree[f].mode = "diskfull" ->
                { SubSeq(StrippedText(linesep), 1, k) :
                    k \in 0..(Len(StrippedText(linesep)) - 1) }
           [] OTHER -> {initial[f]}
    ELSE {initial[f]}

RECURSIVE TagsFrom(_, _)
TagsFrom(s, i) ==
    IF i > Len(s) THEN <<>>
    ELSE LET e == TagMatchEnd(s, i)
         IN  IF e # 0 THEN <<[from |-> i, to |-> e]>> \o TagsFrom(s, e + 1)
             ELSE TagsFrom(s, i + 1)

Tags(s) == TagsFrom(s, 1)
TagText(s, k) == SubSeq(s, Tags(s)[k].from, Tags(s)[k].to)

\* The stretches of s outside the matched tags, in order: one more than
\* there are tags.
Outside(s) ==
    LET t == Tags(s)
        n == Len(t)
    IN  [k \in 1..(n + 1) |->
            SubSeq(s, IF k = 1 THEN 1 ELSE t[k - 1].to + 1,
                      IF k = n + 1 THEN Len(s) ELSE t[k].from - 1)]

\* The first position >= p of t where lit occurs, or 0.
RECURSIVE FindLit(_, _, _)
FindLit(t, lit, p) ==
    IF p + Len(lit) - 1 > Len(t) THEN 0
    ELSE IF HasLit(t, lit, p) THEN p
    ELSE FindLit(t, lit, p + 1)

\* t from position p on is: anything, segs[k], anything, ..., segs[Len(segs)]
\* and the end of t.
RECURSIVE FramedFrom(_, _, _, _)
FramedFrom(segs, k, t, p) ==
    IF k = Len(segs)
    THEN /\ Len(t) - Len(segs[k]) + 1 >= p
         /\ HasLit(t, segs[k], Len(t) - Len(segs[k]) + 1)
    ELSE LET q == FindLit(t, segs[k], p)
         IN  q # 0 /\ FramedFrom(segs, k + 1, t, q + Len(segs[k]))

\* t is segs[1], something, segs[2], something, ..., segs[Len(segs)]: the
\* stretches segs are all in t, unchanged and in order, with one piece of
\* text between each two.
Framed(segs, t) ==
    IF Len(segs) = 1 THEN t = segs[1]
    ELSE /\ HasLit(t, segs[1], 1)
         /\ FramedFrom(segs, 2, t, Len(segs[1]) + 1)

\* C1: in a second run nothing is written and no notice is printed, and
\* every file holds what it held when the second run started.
Idempotence ==
    run >= 2 =>
        /\ stdout = <<>>
        /\ \A f \in File : written[f] = 0
        /\ disk = before

\* C2: when a run has finished, the bytes on disk outside the tags matched
\* in the file's bytes before the run are all there, unchanged and in order.
Preservation ==
    pc = "done" => \A f \in File : Framed(Outside(before[f]), disk[f])

\* An attribute name: a run of characters other than whitespace and = " > / <.
IsNameChar(c) == ~IsSpace(c) /\ c \notin {"=", QUOTE, GT, "/", "<"}

RECURSIVE NameEnd(_, _)
NameEnd(s, i) ==
    IF i <= Len(s) /\ IsNameChar(s[i]) THEN NameEnd(s, i + 1) ELSE i

NoParse == [ok |-> FALSE, attrs |-> <<>>, close |-> <<>>]

\* The well-formed reading of a tag from position i on (after the tag name):
\* attributes name="value", each after whitespace, then optional whitespace
\* and '>' or '/>'.
RECURSIVE ParseFrom(_, _)
ParseFrom(tag, i) ==
    LET q == SkipSpace(tag, i)
    IN  IF q > Len(tag) THEN NoParse
        ELSE IF q = Len(tag) /\ tag[q] = GT
             THEN [ok |-> TRUE, attrs |-> <<>>, close |-> SubSeq(tag, i, Len(tag))]
        ELSE IF q + 1 = Len(tag) /\ tag[q] = "/" /\ tag[q + 1] = GT
             THEN [ok |-> TRUE, attrs |-> <<>>, close |-> SubSeq(tag, i, Len(tag))]
        ELSE IF q = i THEN NoParse
        ELSE LET e == NameEnd(tag, q)
             IN  IF e = q \/ ~HasLit(tag, <<"=", QUOTE>>, e) THEN NoParse
                 ELSE LET v == FindChar(tag, QUOTE, e + 2)
                      IN  IF v = 0 THEN NoParse
                          ELSE LET rest == ParseFrom(tag, v + 1)
                               IN  [ok |-> rest.ok,
                                    attrs |-> <<[ws |-> SubSeq(tag, i, q - 1),
                                                 name |-> SubSeq(tag, q, e - 1),
                                                 value |-> SubSeq(tag, e + 2, v - 1)]>>
                                              \o rest.attrs,
                                    close |-> rest.close]

Parse(tag) ==
    IF HasLit(tag, TagLit, 1) THEN ParseFrom(tag, Len(TagLit) + 1) ELSE NoParse

VersionName == SubSeq(VerLit, 1, Len(VerLit) - 2)
IsOther(a) == a.name # VersionName

RECURSIVE Unparse(_)
Unparse(attrs) ==
    IF attrs = <<>> THEN <<>>
    ELSE attrs[1].ws \o attrs[1].name \o <<"=", QUOTE>> \o attrs[1].value
            \o <<QUOTE>> \o Unparse(Tail(attrs))

\* A well-formed tag without its attributes named Version and the whitespace
\* before each of them.
WithoutVersions(tag) ==
    TagLit \o Unparse(SelectSeq(Parse(tag).attrs, IsOther)) \o Parse(tag).close

\* The text s with every matched tag replaced by WithoutVersions of it.
RECURSIVE ExpectedFrom(_, _)
ExpectedFrom(s, i) ==
    IF i > Len(s) THEN <<>>
    ELSE LET e == TagMatchEnd(s, i)
         IN  IF e # 0 THEN WithoutVersions(SubSeq(s, i, e)) \o ExpectedFrom(s, e + 1)
             ELSE <<s[i]>> \o ExpectedFrom(s, i + 1)

\* content was read and substituted, it holds at least one tag, and all its
\* tags are well formed.
WellFormedRead ==
    /\ pc \notin {"open", "sub"}
    /\ Tags(content) # <<>>
    /\ \A k \in 1..Len(Tags(content)) : Parse(TagText(content, k)).ok

\* C9: the substituted text of a file whose tags are well formed is the text
\* read with, in each tag, the Version attributes and the whitespace before
\* them deleted and nothing put in their place.
AttributeStripping ==
    WellFormedRead => new_content = ExpectedFrom(content, 1)

\* The tags of new_content that the tags of content have become: tag k
\* starts where the text before it ends and runs to the next '>'.
RECURSIVE NewTagsFrom(_, _)
NewTagsFrom(k, p) ==
    IF k > Len(Tags(content)) THEN <<>>
    ELSE LET e == FindChar(new_content, GT, p)
             gap == IF k = Len(Tags(content)) THEN 0
                    ELSE Tags(content)[k + 1].from - Tags(content)[k].to - 1
         IN  IF e = 0 THEN <<>>
             ELSE <<SubSeq(new_content, p, e)>> \o NewTagsFrom(k + 1, e + 1 + gap)

NewTags == NewTagsFrom(1, Tags(content)[1].from)

NamesAndValues(attrs) ==
    [i \in 1..Len(attrs) |-> <<attrs[i].name, attrs[i].value>>]

\* C10: in the substituted text every well-formed tag is still a well-formed
\* tag of the same name and ending, with the names and values of the
\* attributes not named Version unchanged and in the same order.
OtherAttributesKept ==
    WellFormedRead =>
        /\ Len(NewTags) = Len(Tags(content))
        /\ \A k \in 1..Len(NewTags) :
            LET old == Parse(TagText(content, k))
                new == Parse(NewTags[k])
            IN  /\ new.ok
                /\ NamesAndValues(new.attrs)
                     = NamesAndValues(SelectSeq(old.attrs, IsOther))
                /\ SubSeq(new.close, SkipSpace(new.close, 1), Len(new.close))
                     = SubSeq(old.close, SkipSpace(old.close, 1), Len(old.close))

====
